---------------------------- MODULE Spec2Model ----------------------------
(***************************************************************************)
(* Order-Flow Imbalance pipeline (src/src/ofi.py, src/src/data_loader.py,  *)
(* src/main.py).                                                           *)
(*                                                                         *)
(* A table (pandas DataFrame) is a record [columns, rows]: the set of its  *)
(* column groups and the sequence of its rows, each row a record with one  *)
(* field per column group; the per-level columns xxx_00 .. xxx_NN of one   *)
(* group are one field holding a function on LEVELS.                       *)
(*                                                                         *)
(* A float64 cell is a pair <<n, d>>: the rational n/d in lowest terms     *)
(* when d > 0, NaN (pandas' missing value) as <<0, 0>>, +inf as <<1, 0>>   *)
(* and -inf as <<-1, 0>>.  Timestamps are integers (ticks).                *)
(***************************************************************************)
EXTENDS Integers, Sequences, FiniteSets, TLC

VARIABLES
    raw_df,      \* table returned by load_raw (all symbols, sorted by ts_event)
    sym_df,      \* rows of one symbol: the argument of add_level_ofi
    msg_df,      \* table returned by add_level_ofi: the argument of aggregate_ofi
    bar_df,      \* table returned by aggregate_ofi
    integrated,  \* outcome of integrated_ofi
    multi_bar,   \* table returned by multi_asset_ofi
    files,       \* output files written by main
    args,        \* arguments of the calls (command line of main)
    pc           \* position in the pipeline, or the exception raised

vars == <<raw_df, sym_df, msg_df, bar_df, integrated, multi_bar, files, args, pc>>

----------------------------------------------------------------------------
(* Bounds of the model.                                                    *)

\* Depth levels: the code's LEVELS is range(10); the model keeps two levels
\* (the top of book and one deeper level).
LEVELS == 0 .. 1

FlowRows == 2      \* rows of a table given to add_level_ofi alone
BarRows == 2       \* rows of a table taken through aggregate_ofi
MultiRows == 2     \* rows of a raw table given to multi_asset_ofi
MaxSyms == 2       \* length of the symbol list given to multi_asset_ofi
MaxTs == 3         \* timestamps of a table taken through aggregate_ofi: 0 .. MaxTs
MultiTs == 2       \* timestamps of a raw table given to multi_asset_ofi: 0 .. MultiTs
DayLen == 3        \* ticks in one calendar day

Symbols == {"AAA", "BBB"}
Widths == {1, 2}   \* bucket widths (freq), in ticks

----------------------------------------------------------------------------
(* float64 cells.                                                          *)

NaN == <<0, 0>>
PosInf == <<1, 0>>
NegInf == <<-1, 0>>
Num(n) == <<n, 1>>

IsNaN(v) == v = NaN
IsInf(v) == v = PosInf \/ v = NegInf
IsFinite(v) == v[2] > 0

Abs(n) == IF n < 0 THEN -n ELSE n

RECURSIVE GCD(_, _)
GCD(a, b) == IF b = 0 THEN a ELSE GCD(b, a % b)

\* n/d in lowest terms, d > 0
Ratio(n, d) ==
    LET g == GCD(Abs(n), d)
    IN  IF n = 0 THEN <<0, 1>>
        ELSE IF n < 0 THEN <<-(Abs(n) \div g), d \div g>>
        ELSE <<n \div g, d \div g>>

\* IEEE-754 comparisons with zero: every comparison with NaN is false
Gt0(v) == ~IsNaN(v) /\ v[1] > 0
Eq0(v) == IsFinite(v) /\ v[1] = 0
Lt0(v) == ~IsNaN(v) /\ v[1] < 0

Neg(v) == <<-v[1], v[2]>>

Add(a, b) ==
    IF IsNaN(a) \/ IsNaN(b) THEN NaN
    ELSE IF IsInf(a) /\ IsInf(b) THEN (IF a = b THEN a ELSE NaN)
    ELSE IF IsInf(a) THEN a
    ELSE IF IsInf(b) THEN b
    ELSE Ratio(a[1] * b[2] + b[1] * a[2], a[2] * b[2])

Sub(a, b) == Add(a, Neg(b))

\* float division: x/0 is +-inf, 0/0 is NaN
Div(a, b) ==
    IF IsNaN(a) \/ IsNaN(b) THEN NaN
    ELSE IF IsInf(a) /\ IsInf(b) THEN NaN
    ELSE IF IsInf(a) THEN (IF b[1] < 0 THEN Neg(a) ELSE a)
    ELSE IF IsInf(b) THEN Num(0)
    ELSE IF b[1] = 0
         THEN (IF a[1] = 0 THEN NaN ELSE IF a[1] > 0 THEN PosInf ELSE NegInf)
    ELSE IF b[1] > 0 THEN Ratio(a[1] * b[2], a[2] * b[1])
    ELSE Ratio(-(a[1] * b[2]), a[2] * (-b[1]))

----------------------------------------------------------------------------
(* Tables.                                                                 *)

NoTable == [columns |-> {}, rows |-> <<>>]

RawColumns == {"ts_event", "symbol", "bid_px", "bid_sz", "ask_px", "ask_sz"}

Table(cols, rows) == [columns |-> cols, rows |-> rows]

\* pandas Series.diff(): the first element is NaN
Diff(col) ==
    [i \in DOMAIN col |-> IF i = 1 THEN NaN ELSE Sub(col[i], col[i - 1])]

\* one column of a table as a sequence: df[f"{name}_{level:02d}"]
Column(df, name, level) ==
    [i \in DOMAIN df.rows |-> df.rows[i][name][level]]

\* np.where(dp > 0, q, np.where(dp == 0, dq, -q)) for the bid side and
\* np.where(dp < 0, -q, np.where(dp == 0, dq, q)) for the ask side: the last
\* branch is taken wherever both comparisons are false, a NaN dp included
Where(side, q, dp, dq) ==
    [i \in DOMAIN q |->
        IF side = "bid"
        THEN (IF Gt0(dp[i]) THEN q[i] ELSE IF Eq0(dp[i]) THEN dq[i] ELSE Neg(q[i]))
        ELSE (IF Lt0(dp[i]) THEN Neg(q[i]) ELSE IF Eq0(dp[i]) THEN dq[i] ELSE q[i])]

\* the flow of one side and level from its price column p and size column q
FlowOf(side, p, q) == Where(side, q, Diff(p), Diff(q))

(* _side_flow taking the whole size, not its change, at an unchanged price *)
SideFlowNoDiff(df, side, level) ==
    Where(side, Column(df, IF side = "bid" THEN "bid_sz" ELSE "ask_sz", level),
          Diff(Column(df, IF side = "bid" THEN "bid_px" ELSE "ask_px", level)),
          Column(df, IF side = "bid" THEN "bid_sz" ELSE "ask_sz", level))

\* _side_flow(df, side, level)
SideFlow(df, side, level) ==
    FlowOf(side, Column(df, IF side = "bid" THEN "bid_px" ELSE "ask_px", level),
           Column(df, IF side = "bid" THEN "bid_sz" ELSE "ask_sz", level))

\* out with the columns of_bid, of_ask and ofi = of_bid - of_ask of every level
WithFlows(out, of_bid, of_ask) ==
    Table(out.columns \cup {"of_bid", "of_ask", "ofi"},
          [i \in DOMAIN out.rows |->
              [of_bid |-> [m \in LEVELS |-> of_bid[m][i]],
               of_ask |-> [m \in LEVELS |-> of_ask[m][i]],
               ofi |-> [m \in LEVELS |-> Sub(of_bid[m][i], of_ask[m][i])]]
              @@ out.rows[i]])

\* add_level_ofi: a copy of df with of_bid, of_ask and ofi for every level
add_level_ofi(df) ==
    WithFlows(df, [m \in LEVELS |-> SideFlow(df, "bid", m)],
              [m \in LEVELS |-> SideFlow(df, "ask", m)])

----------------------------------------------------------------------------
(* Input tables.                                                           *)

Prices == {Num(1), Num(2)}
Sizes == {Num(0), Num(1), NaN}     \* NaN: an empty cell of the CSV

\* per-level columns: the top level drawn from top, deeper levels from deep
LevelCols(top, deep) ==
    {f \in [LEVELS -> top \cup deep] :
        f[0] \in top /\ \A m \in LEVELS \ {0} : f[m] \in deep}

Snapshot(t, s, bp, bs, ap, as) ==
    [ts_event |-> t, symbol |-> s, bid_px |-> bp, bid_sz |-> bs,
     ask_px |-> ap, ask_sz |-> as]

\* books for add_level_ofi: every price and size of the top level varies; the
\* deeper level moves its bid price only
FlowSnapshots ==
    {Snapshot(0, "AAA", bp, bs, ap, as) :
        bp \in LevelCols(Prices, Prices), bs \in LevelCols(Sizes, {Num(1)}),
        ap \in LevelCols(Prices, {Num(2)}),
        as \in LevelCols({Num(0), Num(1)}, {Num(1)})}

\* books for aggregate_ofi: prices rest, the sizes of the top level vary and
\* the deeper level is empty, with its bid size present or missing
BarSnapshots ==
    {Snapshot(t, "AAA", bp, bs, ap, as) :
        t \in 0 .. MaxTs,
        bp \in LevelCols({Num(1)}, {Num(1)}), bs \in LevelCols(Sizes, {Num(0), NaN}),
        ap \in LevelCols({Num(2)}, {Num(2)}),
        as \in LevelCols({Num(0), Num(1)}, {Num(0)})}

\* books for multi_asset_ofi: two symbols, the top bid size present or missing
MultiSnapshots ==
    {Snapshot(t, s, bp, bs, ap, as) :
        t \in 0 .. MultiTs, s \in Symbols,
        bp \in LevelCols({Num(1)}, {Num(1)}), bs \in LevelCols({Num(1), NaN}, {Num(1)}),
        ap \in LevelCols({Num(2)}, {Num(2)}), as \in LevelCols({Num(1)}, {Num(1)})}

\* load_raw: sort_values("ts_event") leaves the rows in timestamp order
IsSorted(rows) ==
    \A i \in DOMAIN rows : \A j \in DOMAIN rows :
        i < j => rows[i].ts_event <= rows[j].ts_event

\* symbol lists of length 1 .. MaxSyms
SymLists == UNION {[1 .. n -> Symbols] : n \in 1 .. MaxSyms}

NoArgs == [symbol |-> "", freq |-> 0, normalise |-> FALSE, n_components |-> 0,
           symbols |-> <<>>]

----------------------------------------------------------------------------
(* aggregate_ofi.                                                          *)

Min(S) == CHOOSE x \in S : \A y \in S : x <= y
Max(S) == CHOOSE x \in S : \A y \in S : x >= y

RECURSIVE SortSet(_)
SortSet(S) == IF S = {} THEN <<>> ELSE <<Min(S)>> \o SortSet(S \ {Min(S)})

Range(s) == {s[i] : i \in DOMAIN s}

\* the index labels of a table indexed by ts_event
Index(df) == {df.rows[i].ts_event : i \in DOMAIN df.rows}

\* the row of an indexed table with label t (labels are unique)
RowAt(df, t) == df.rows[CHOOSE i \in DOMAIN df.rows : df.rows[i].ts_event = t]

\* count edges w apart, the first at start, up to the one at or before last
Edges(start, last, w) ==
    [k \in 1 .. ((last - start) \div w) + 1 |-> start + (k - 1) * w]

\* the edge at or before first, counting w apart from origin
FirstEdge(first, origin, w) == first - ((first - origin) % w)

\* resample(freq) with the defaults closed="left", label="left",
\* origin="start_day": the bucket edges are origin + k*w, origin the midnight
\* before the first row; one bucket, labelled by its left edge, for every edge
\* from the one at or before the first row to the one at or before the last
BinLabels(df, w) ==
    IF df.rows = <<>> THEN <<>>
    ELSE Edges(FirstEdge(Min(Index(df)), (Min(Index(df)) \div DayLen) * DayLen, w),
               Max(Index(df)), w)

\* column name, level of rows
ValuesOf(rows, name, level) == [i \in DOMAIN rows |-> rows[i][name][level]]

\* the values of column name, level of the rows falling in bucket [b, b + w)
BinValues(df, name, level, b, w) ==
    LET InBin(r) == b <= r.ts_event /\ r.ts_event < b + w
    IN  ValuesOf(SelectSeq(df.rows, InBin), name, level)

RECURSIVE SumSeq(_)
SumSeq(s) == IF s = <<>> THEN Num(0) ELSE Add(Head(s), SumSeq(Tail(s)))

NotNaN(v) == ~IsNaN(v)

\* the sum of the values, NaN when there are fewer than min_count of them
SumIfCount(valid, min_count) ==
    IF Len(valid) < min_count THEN NaN ELSE SumSeq(valid)

(* sum() without min_count: an empty or all-NaN bucket sums to 0 *)
SumNoMinCount(s, min_count) == SumSeq(SelectSeq(s, NotNaN))

\* GroupBy.sum(min_count): NaN is skipped; fewer than min_count values give NaN
SumMinCount(s, min_count) == SumIfCount(SelectSeq(s, NotNaN), min_count)

\* the mean of the values, NaN when there is none
MeanOf(valid) ==
    IF Len(valid) = 0 THEN NaN ELSE Div(SumSeq(valid), Num(Len(valid)))

\* GroupBy.mean(): NaN is skipped; no value gives NaN
MeanSkipNa(s) == MeanOf(SelectSeq(s, NotNaN))

\* dropna(): the rows with no NaN in column group name
DropNa(rows, name) ==
    LET Complete(r) == \A m \in LEVELS : ~IsNaN(r[name][m])
    IN  SelectSeq(rows, Complete)

\* one row per bucket label: the sum of the bucket's ofi at every level
SumBins(df, labels, w) ==
    [k \in DOMAIN labels |->
        [ts_event |-> labels[k],
         ofi |-> [m \in LEVELS |->
                    SumMinCount(BinValues(df, "ofi", m, labels[k], w), 1)]]]

\* bar = df.set_index("ts_event")[ofi_cols].resample(freq).sum(min_count=1).dropna()
OfiBar(df, w) == Table({"ofi"}, DropNa(SumBins(df, BinLabels(df, w), w), "ofi"))

\* df[f"depth_{m}"] = df[f"bid_sz_{m}"] + df[f"ask_sz_{m}"]: assigned on df itself
WithDepth(df) ==
    Table(df.columns \cup {"depth"},
          [i \in DOMAIN df.rows |->
              [depth |-> [m \in LEVELS |->
                            Add(df.rows[i].bid_sz[m], df.rows[i].ask_sz[m])]]
              @@ df.rows[i]])

\* one row per bucket label: the mean of the bucket's depth at every level
MeanBins(df, labels, w) ==
    [k \in DOMAIN labels |->
        [ts_event |-> labels[k],
         depth |-> [m \in LEVELS |->
                      MeanSkipNa(BinValues(df, "depth", m, labels[k], w))]]]

\* depth = df.set_index("ts_event")[depth_cols].resample(freq).mean().dropna()
DepthMean(df, w) ==
    Table({"depth"}, DropNa(MeanBins(df, BinLabels(df, w), w), "depth"))

\* DataFrame.mean(axis=1) of one row
MeanLevels(f) ==
    MeanSkipNa([k \in 1 .. Cardinality(LEVELS) |-> f[SortSet(LEVELS)[k]]])

\* depth_bar = depth.mean(axis=1) / 2
DepthBar(depth) ==
    Table({"depth_bar"},
          [i \in DOMAIN depth.rows |->
              [ts_event |-> depth.rows[i].ts_event,
               depth_bar |-> Div(MeanLevels(depth.rows[i].depth), Num(2))]])

\* the rows of bar / depth_bar over the aligned labels: a label missing on
\* either side gives NaN
DivRows(bar, depth_bar, labels) ==
    [k \in DOMAIN labels |->
        [ts_event |-> labels[k],
         ofi |-> [m \in LEVELS |->
                    IF labels[k] \in Index(bar) /\ labels[k] \in Index(depth_bar)
                    THEN Div(RowAt(bar, labels[k]).ofi[m],
                             RowAt(depth_bar, labels[k]).depth_bar)
                    ELSE NaN]]]

\* bar.div(depth_bar, axis=0): the flex operation aligns the frame's index with
\* the series' index by an outer join
DivAlign(bar, depth_bar) ==
    Table(bar.columns,
          DivRows(bar, depth_bar, SortSet(Index(bar) \cup Index(depth_bar))))

\* the table aggregate_ofi returns
aggregate_ofi(df, freq, normalise) ==
    IF ~normalise THEN OfiBar(df, freq)
    ELSE DivAlign(OfiBar(df, freq), DepthBar(DepthMean(WithDepth(df), freq)))

\* the argument of aggregate_ofi after the call
ArgumentAfter(df, normalise) == IF normalise THEN WithDepth(df) ELSE df

----------------------------------------------------------------------------
(* integrated_ofi and multi_asset_ofi.                                     *)

\* PCA(n_components, svd_solver="full").fit(ofi_bar): sklearn rejects NaN and
\* infinity, and n_components outside 1 .. min(n_samples, n_features)
PcaFits(ofi_bar, n_components) ==
    /\ \A i \in DOMAIN ofi_bar.rows : \A m \in LEVELS : IsFinite(ofi_bar.rows[i].ofi[m])
    /\ n_components >= 1
    /\ n_components <= Len(ofi_bar.rows)
    /\ n_components <= Cardinality(LEVELS)

\* raw_df[raw_df["symbol"] == sym]
Filter(df, sym) ==
    LET IsSym(r) == r.symbol = sym
    IN  Table(df.columns, SelectSeq(df.rows, IsSym))

\* a dict: its keys in insertion order and the value at each key
EmptyDict == [keys |-> <<>>, at |-> <<>>]

\* d[k] = v
DictSet(d, k, v) ==
    [keys |-> IF k \in Range(d.keys) THEN d.keys ELSE Append(d.keys, k),
     at |-> (k :> v) @@ d.at]

(* the loop of multi_asset_ofi leaving out a symbol that has no rows *)
RECURSIVE FramesSkipMissing(_, _, _, _, _, _)
FramesSkipMissing(raw, symbols, i, frames, freq, normalise) ==
    IF i > Len(symbols) THEN [raised |-> FALSE, frames |-> frames]
    ELSE LET df == Filter(raw, symbols[i])
         IN  IF df.rows = <<>>
             THEN FramesSkipMissing(raw, symbols, i + 1, frames, freq, normalise)
             ELSE FramesSkipMissing(raw, symbols, i + 1,
                     DictSet(frames, symbols[i],
                             aggregate_ofi(add_level_ofi(df), freq, normalise)),
                     freq, normalise)

\* the loop of multi_asset_ofi from the i-th symbol on: frames is the dict
\* built so far; a symbol without rows raises KeyError
RECURSIVE Frames(_, _, _, _, _, _)
Frames(raw, symbols, i, frames, freq, normalise) ==
    IF i > Len(symbols) THEN [raised |-> FALSE, frames |-> frames]
    ELSE LET df == Filter(raw, symbols[i])
         IN  IF df.rows = <<>> THEN [raised |-> TRUE, frames |-> frames]
             ELSE Frames(raw, symbols, i + 1,
                     DictSet(frames, symbols[i],
                             aggregate_ofi(add_level_ofi(df), freq, normalise)),
                     freq, normalise)

\* one row per label, one column group per key; a frame without the label
\* gives NaN
ConcatRows(frames, labels) ==
    [k \in DOMAIN labels |->
        [ts_event |-> labels[k],
         ofi |-> [s \in Range(frames.keys) |->
                    IF labels[k] \in Index(frames.at[s])
                    THEN RowAt(frames.at[s], labels[k]).ofi
                    ELSE [m \in LEVELS |-> NaN]]]]

(* concat keeping every label of any frame *)
ConcatOuter(frames) ==
    Table(Range(frames.keys),
          ConcatRows(frames, SortSet(UNION {Index(frames.at[s]) : s \in Range(frames.keys)})))

\* the labels of the inner join of the first n frames
RECURSIVE InnerLabels(_, _)
InnerLabels(frames, n) ==
    IF n = 0 THEN {}
    ELSE IF n = 1 THEN Index(frames.at[frames.keys[1]])
    ELSE {t \in InnerLabels(frames, n - 1) : t \in Index(frames.at[frames.keys[n]])}

\* pd.concat(frames, axis=1, join="inner"): one column group per key of the
\* dict, the rows whose label every frame has
ConcatInner(frames) ==
    Table(Range(frames.keys),
          ConcatRows(frames, SortSet(InnerLabels(frames, Len(frames.keys)))))

----------------------------------------------------------------------------
(* Operations.                                                             *)

\* sym_df = raw[raw["symbol"] == args.symbol]                     main.py:32
SelectSymbol ==
    /\ pc = "loaded"
    /\ sym_df' = Filter(raw_df, args.symbol)
    /\ pc' = "selected"
    /\ UNCHANGED <<raw_df, msg_df, bar_df, integrated, multi_bar, files, args>>

\* msg_df = add_level_ofi(sym_df)                                 main.py:34
AddLevelOfi ==
    /\ pc = "selected"
    /\ msg_df' = add_level_ofi(sym_df)
    /\ pc' = "msg"
    /\ UNCHANGED <<raw_df, sym_df, bar_df, integrated, multi_bar, files, args>>

\* bar_df = aggregate_ofi(msg_df, freq=freq, normalise=normalise)
AggregateOfi(freq, normalise) ==
    /\ pc = "msg"
    /\ bar_df' = aggregate_ofi(msg_df, freq, normalise)
    /\ msg_df' = ArgumentAfter(msg_df, normalise)
    /\ args' = [args EXCEPT !.freq = freq, !.normalise = normalise]
    /\ pc' = "bar"
    /\ UNCHANGED <<raw_df, sym_df, integrated, multi_bar, files>>

\* bar_df["ofi_integrated"] = integrated_ofi(bar_df, n_components): the fit
\* raises ValueError, or main stores the series as a new column of bar_df
IntegratedOfi(n_components) ==
    /\ pc = "bar"
    /\ IF PcaFits(bar_df, n_components)
       THEN /\ integrated' = "series"
            /\ bar_df' = [bar_df EXCEPT !.columns = @ \cup {"ofi_integrated"}]
            /\ pc' = "integrated"
       ELSE /\ pc' = "ValueError"
            /\ UNCHANGED <<integrated, bar_df>>
    /\ UNCHANGED <<raw_df, sym_df, msg_df, multi_bar, files, args>>

\* bar_df.to_parquet(out_csv); corr_heatmap(bar_df, path=...)  main.py:38-42
WriteBar ==
    /\ pc = "integrated"
    /\ files' = files \cup {"ofi.parquet", "corr.png"}
    /\ pc' = IF args.symbols = <<>> THEN "exit" ELSE "multi_start"
    /\ UNCHANGED <<raw_df, sym_df, msg_df, bar_df, integrated, multi_bar, args>>

\* the outcome r of the loop: KeyError, or the frames joined
Combine(r) ==
    IF r.raised
    THEN /\ pc' = "KeyError"
         /\ UNCHANGED multi_bar
    ELSE /\ multi_bar' = ConcatInner(r.frames)
         /\ pc' = "multi"

\* multi_bar = multi_asset_ofi(raw, syms, freq=freq, normalise=normalise)
MultiAssetOfi(symbols, freq, normalise) ==
    /\ pc = "multi_start"
    /\ Combine(Frames(raw_df, symbols, 1, EmptyDict, freq, normalise))
    /\ args' = [args EXCEPT !.symbols = symbols, !.freq = freq, !.normalise = normalise]
    /\ UNCHANGED <<raw_df, sym_df, msg_df, bar_df, integrated, files>>

\* multi_bar.to_parquet("ofi-data/multi_asset_ofi.parquet")       main.py:47
WriteMulti ==
    /\ pc = "multi"
    /\ files' = files \cup {"multi_asset_ofi.parquet"}
    /\ pc' = "exit"
    /\ UNCHANGED <<raw_df, sym_df, msg_df, bar_df, integrated, multi_bar, args>>

----------------------------------------------------------------------------
(* main: the command line is parsed, the CSV loaded, then the single-symbol *)
(* path and, when --symbols is given, the multi-asset path.                *)

MainAggregate == AggregateOfi(args.freq, TRUE)
MainIntegrated == IntegratedOfi(args.n_components)
MainMulti == MultiAssetOfi(args.symbols, args.freq, TRUE)

Init ==
    /\ \E n \in 0 .. MultiRows : \E f \in [1 .. n -> MultiSnapshots] :
          /\ IsSorted(f)
          /\ raw_df = Table(RawColumns, f)
    /\ \E s \in Symbols, w \in Widths, k \in 1 .. Cardinality(LEVELS),
          l \in {<<>>} \cup SymLists :
          args = [symbol |-> s, freq |-> w, normalise |-> TRUE, n_components |-> k,
                  symbols |-> l]
    /\ sym_df = NoTable
    /\ msg_df = NoTable
    /\ bar_df = NoTable
    /\ integrated = "none"
    /\ multi_bar = NoTable
    /\ files = {}
    /\ pc = "loaded"

Next ==
    \/ SelectSymbol
    \/ AddLevelOfi
    \/ MainAggregate
    \/ MainIntegrated
    \/ WriteBar
    \/ MainMulti
    \/ WriteMulti

Spec == Init /\ [][Next]_vars

----------------------------------------------------------------------------
(* add_level_ofi called on the rows of one symbol.                         *)

InitFlow ==
    /\ \E n \in 0 .. FlowRows : \E f \in [1 .. n -> FlowSnapshots] :
          sym_df = Table(RawColumns, [i \in 1 .. n |-> [f[i] EXCEPT !.ts_event = i - 1]])
    /\ raw_df = sym_df
    /\ msg_df = NoTable
    /\ bar_df = NoTable
    /\ integrated = "none"
    /\ multi_bar = NoTable
    /\ files = {}
    /\ args = NoArgs
    /\ pc = "selected"

NextFlow == AddLevelOfi

SpecFlow == InitFlow /\ [][NextFlow]_vars

----------------------------------------------------------------------------
(* add_level_ofi, then aggregate_ofi with any frequency and either         *)
(* normalise flag.                                                         *)

CallAggregateOfi == \E w \in Widths, normalise \in BOOLEAN : AggregateOfi(w, normalise)

InitBar ==
    /\ \E n \in 0 .. BarRows : \E f \in [1 .. n -> BarSnapshots] :
          /\ IsSorted(f)
          /\ sym_df = Table(RawColumns, f)
    /\ raw_df = sym_df
    /\ msg_df = NoTable
    /\ bar_df = NoTable
    /\ integrated = "none"
    /\ multi_bar = NoTable
    /\ files = {}
    /\ args = NoArgs
    /\ pc = "selected"

NextBar == AddLevelOfi \/ CallAggregateOfi

SpecBar == InitBar /\ [][NextBar]_vars

----------------------------------------------------------------------------
(* multi_asset_ofi called with any symbol list, frequency and flag, and    *)
(* its result written as main writes it.                                   *)

CallMultiAssetOfi ==
    \E l \in SymLists, w \in Widths, normalise \in BOOLEAN : MultiAssetOfi(l, w, normalise)

InitMulti ==
    /\ \E n \in 0 .. MultiRows : \E f \in [1 .. n -> MultiSnapshots] :
          /\ IsSorted(f)
          /\ raw_df = Table(RawColumns, f)
    /\ sym_df = NoTable
    /\ msg_df = NoTable
    /\ bar_df = NoTable
    /\ integrated = "none"
    /\ multi_bar = NoTable
    /\ files = {}
    /\ args = NoArgs
    /\ pc = "multi_start"

NextMulti == CallMultiAssetOfi \/ WriteMulti

SpecMulti == InitMulti /\ [][NextMulti]_vars

----------------------------------------------------------------------------
(* Properties.                                                             *)

\* sign of the change of a price column between row i - 1 and row i
PriceChange(rows, name, m, i) == Sub(rows[i][name][m], rows[i - 1][name][m])

\* C1: for every level and every row with a previous row, the bid flow is q
\* when the bid price rose, dq when it is unchanged and -q when it fell; the
\* ask flow is -q when the ask price fell, dq when unchanged and q when it rose
C1_ThreeBranchRule ==
    pc = "msg" =>
        /\ Len(msg_df.rows) = Len(sym_df.rows)
        /\ \A i \in 2 .. Len(sym_df.rows) : \A m \in LEVELS :
              LET r == sym_df.rows[i]
                  prev == sym_df.rows[i - 1]
                  out == msg_df.rows[i]
                  dpb == PriceChange(sym_df.rows, "bid_px", m, i)
                  dpa == PriceChange(sym_df.rows, "ask_px", m, i)
              IN  /\ Gt0(dpb) => out.of_bid[m] = r.bid_sz[m]
                  /\ Eq0(dpb) => out.of_bid[m] = Sub(r.bid_sz[m], prev.bid_sz[m])
                  /\ Lt0(dpb) => out.of_bid[m] = Neg(r.bid_sz[m])
                  /\ Lt0(dpa) => out.of_ask[m] = Neg(r.ask_sz[m])
                  /\ Eq0(dpa) => out.of_ask[m] = Sub(r.ask_sz[m], prev.ask_sz[m])
                  /\ Gt0(dpa) => out.of_ask[m] = r.ask_sz[m]

\* a second row whose bid price is unchanged at the top level with the size
\* going from 0 to 1, and whose ask price fell with one unit resting
C1_Witness ==
    /\ pc = "msg"
    /\ Len(sym_df.rows) = 2
    /\ Eq0(PriceChange(sym_df.rows, "bid_px", 0, 2))
    /\ sym_df.rows[1].bid_sz[0] = Num(0)
    /\ msg_df.rows[2].of_bid[0] = Num(1)
    /\ Lt0(PriceChange(sym_df.rows, "ask_px", 0, 2))
    /\ msg_df.rows[2].of_ask[0] = Num(-1)
    /\ Lt0(PriceChange(sym_df.rows, "bid_px", 1, 2))
    /\ msg_df.rows[2].of_bid[1] = Num(-1)

\* C2: the first row of a symbol is kept and its bid flow, ask flow and OFI
\* are missing values at every level
C2_FirstRowUndefined ==
    (pc = "msg" /\ Len(sym_df.rows) >= 1) =>
        /\ Len(msg_df.rows) = Len(sym_df.rows)
        /\ \A m \in LEVELS :
              /\ IsNaN(msg_df.rows[1].of_bid[m])
              /\ IsNaN(msg_df.rows[1].of_ask[m])
              /\ IsNaN(msg_df.rows[1].ofi[m])

\* the bucket a timestamp falls in: edges are w apart, counted from the
\* midnight before the first row of the table
BucketOf(df, t, w) ==
    LET first == Min(Index(df))
        midnight == first - (first % DayLen)
    IN  t - ((t - midnight) % w)

\* the values of ofi at level m of the rows whose timestamp satisfies In
OfiWhere(df, m, In(_)) ==
    LET Sel(r) == In(r.ts_event)
        sel == SelectSeq(df.rows, Sel)
    IN  [i \in DOMAIN sel |-> sel[i].ofi[m]]

\* C3 as stated: without normalisation a bucket has a row exactly when a
\* message falls in it, and the bar value is the sum of the messages' ofi
C3_RowIffMessage ==
    (pc = "bar" /\ ~args.normalise) =>
        /\ Index(bar_df) = {BucketOf(msg_df, t, args.freq) : t \in Index(msg_df)}
        /\ \A i \in DOMAIN bar_df.rows : \A m \in LEVELS :
              LET In(t) == BucketOf(msg_df, t, args.freq) = bar_df.rows[i].ts_event
              IN  bar_df.rows[i].ofi[m] = SumSeq(OfiWhere(msg_df, m, In))

\* C3 amended: without normalisation a bucket has a row exactly when, at
\* every level, some message falling in it has an ofi that is not missing,
\* and the bar value is the sum of the ofi values that are not missing
C3_RowIffValueAtEveryLevel ==
    (pc = "bar" /\ ~args.normalise) =>
        /\ Index(bar_df) =
              {b \in {BucketOf(msg_df, t, args.freq) : t \in Index(msg_df)} :
                  \A m \in LEVELS : \E j \in DOMAIN msg_df.rows :
                      /\ BucketOf(msg_df, msg_df.rows[j].ts_event, args.freq) = b
                      /\ ~IsNaN(msg_df.rows[j].ofi[m])}
        /\ \A i \in DOMAIN bar_df.rows : \A m \in LEVELS :
              LET In(t) == BucketOf(msg_df, t, args.freq) = bar_df.rows[i].ts_event
              IN  bar_df.rows[i].ofi[m] =
                      SumSeq(SelectSeq(OfiWhere(msg_df, m, In), NotNaN))
        /\ \A i \in DOMAIN bar_df.rows : \A j \in DOMAIN bar_df.rows :
              i < j => bar_df.rows[i].ts_event < bar_df.rows[j].ts_event

\* two messages in two buckets with an empty bucket between them: the first
\* has a bar, the second has a missing ofi and no bar
C3_Witness ==
    /\ pc = "bar" /\ ~args.normalise
    /\ Len(msg_df.rows) = 2
    /\ Len(bar_df.rows) = 1
    /\ bar_df.rows[1].ts_event = BucketOf(msg_df, msg_df.rows[1].ts_event, args.freq)
    /\ bar_df.rows[1].ofi[0] = Num(-2)
    /\ BucketOf(msg_df, msg_df.rows[2].ts_event, args.freq)
          > bar_df.rows[1].ts_event + args.freq
    /\ IsNaN(msg_df.rows[2].ofi[0])

\* the symbols of the list given to multi_asset_ofi
Requested == Range(args.symbols)

\* the bar table of one symbol on its own rows
OwnBars(s) == aggregate_ofi(add_level_ofi(Filter(raw_df, s)), args.freq, args.normalise)

\* C4: the timestamps of the combined table are exactly those every
\* requested symbol's own bar table has
C4_IndexIsIntersection ==
    pc = "multi" =>
        LET own == [s \in Requested |-> Index(OwnBars(s))]
        IN  /\ \A t \in Index(multi_bar) : \A s \in Requested : t \in own[s]
            /\ \A s \in Requested : \A t \in own[s] :
                  (\A o \in Requested : t \in own[o]) => t \in Index(multi_bar)
            /\ multi_bar.columns = Requested

\* two symbols whose bar tables have no timestamp in common
C4_Witness ==
    /\ pc = "multi"
    /\ args.symbols = <<"AAA", "BBB">>
    /\ Index(OwnBars("AAA")) # {}
    /\ Index(OwnBars("BBB")) # {}
    /\ Index(multi_bar) = {}

\* C5: the call raises KeyError exactly when some requested symbol has no
\* rows in the raw table; then no combined table is returned and the
\* multi-asset file is not written
C5_MissingSymbolRaises ==
    pc \in {"KeyError", "multi", "exit"} =>
        /\ pc = "KeyError" <=> \E s \in Requested : Filter(raw_df, s).rows = <<>>
        /\ pc = "KeyError" =>
              /\ multi_bar = NoTable
              /\ "multi_asset_ofi.parquet" \notin files

\* the second symbol of the list is the missing one
C5_Witness ==
    /\ pc = "KeyError"
    /\ Len(args.symbols) = 2
    /\ Filter(raw_df, args.symbols[1]).rows # <<>>
    /\ Filter(raw_df, args.symbols[2]).rows = <<>>
    /\ multi_bar = NoTable
    /\ files = {}

\* C6: with normalisation the result has exactly the buckets that both the
\* summed-OFI table and the mean-depth table have
C6_JoinedByIntersection ==
    (pc = "bar" /\ args.normalise) =>
        Index(bar_df) = Index(OfiBar(msg_df, args.freq))
                            \cap Index(DepthMean(msg_df, args.freq))

\* C7: with normalisation no value of the result is infinite, and a bucket
\* whose divisor is zero has a missing value at every level
C7_NoInfinity ==
    (pc = "bar" /\ args.normalise) =>
        LET depth_bar == DepthBar(DepthMean(msg_df, args.freq))
        IN  \A i \in DOMAIN bar_df.rows : \A m \in LEVELS :
                /\ ~IsInf(bar_df.rows[i].ofi[m])
                /\ (\A j \in DOMAIN depth_bar.rows :
                       depth_bar.rows[j].ts_event = bar_df.rows[i].ts_event
                           => ~Eq0(depth_bar.rows[j].depth_bar))
                   \/ IsNaN(bar_df.rows[i].ofi[m])

\* C8: every stage leaves the table it is given as it was
C8_InputsNotMutated ==
    [][/\ pc = "selected" => sym_df' = sym_df
       /\ pc = "msg" => msg_df' = msg_df
       /\ pc = "bar" => bar_df'.rows = bar_df.rows
       /\ pc = "multi_start" => raw_df' = raw_df]_vars

\* C9: a bar labelled T sums the messages of the bucket that ends at T, and
\* the labels are multiples of the bucket width
C9_LabelledByBucketEnd ==
    (pc = "bar" /\ ~args.normalise) =>
        \A i \in DOMAIN bar_df.rows :
            LET T == bar_df.rows[i].ts_event
                LeftClosed(t) == T - args.freq <= t /\ t < T
                RightClosed(t) == T - args.freq < t /\ t <= T
            IN  /\ T % args.freq = 0
                /\ \/ \A m \in LEVELS : bar_df.rows[i].ofi[m] =
                          SumSeq(SelectSeq(OfiWhere(msg_df, m, LeftClosed), NotNaN))
                   \/ \A m \in LEVELS : bar_df.rows[i].ofi[m] =
                          SumSeq(SelectSeq(OfiWhere(msg_df, m, RightClosed), NotNaN))
                /\ \E j \in DOMAIN msg_df.rows :
                      LeftClosed(msg_df.rows[j].ts_event)
                          \/ RightClosed(msg_df.rows[j].ts_event)

\* the divisor of bucket b: the mean over its messages of bid size + ask
\* size, averaged over the levels and halved
Divisor(df, b, w) ==
    LET InBucket(r) == BucketOf(df, r.ts_event, w) = b
        sel == SelectSeq(df.rows, InBucket)
        depth(m) == MeanSkipNa([i \in DOMAIN sel |-> Add(sel[i].bid_sz[m], sel[i].ask_sz[m])])
        levels == SortSet(LEVELS)
    IN  Div(Div(SumSeq([k \in DOMAIN levels |-> depth(levels[k])]), Num(Len(levels))),
            Num(2))

\* C10: every bucket of the normalised output is a bucket of the raw bars,
\* and its value at every level is the raw bar value over the bucket's divisor
C10_RawOverDivisor ==
    (pc = "bar" /\ args.normalise) =>
        LET raw == aggregate_ofi(msg_df, args.freq, FALSE)
        IN  \A i \in DOMAIN bar_df.rows :
                LET T == bar_df.rows[i].ts_event
                IN  /\ T \in Index(raw)
                    /\ \A m \in LEVELS :
                          bar_df.rows[i].ofi[m] =
                              Div(RowAt(raw, T).ofi[m], Divisor(msg_df, T, args.freq))

=============================================================================
